---- MODULE Spec2Model ----
(***************************************************************************)
(* A model of the loose-object store of src/src/main.rs: the object        *)
(* envelope codec (Object::write_to / Object::from_path), the tree payload *)
(* (TreeItem::parse, TreeData), the commit text (CommitData), the store    *)
(* (Repository::find_object / save_object) and the commands built on them. *)
(*                                                                         *)
(* Bytes are the numbers 0..255 and every string or byte buffer is a       *)
(* sequence of bytes, so that NUL, space, digits and the byte order of     *)
(* names are the ones the code sees.                                       *)
(***************************************************************************)
EXTENDS Integers, Sequences, FiniteSets, TLC

VARIABLES
    inp,      \* codec runs: the input handed to the function that is run
    res,      \* codec runs: what the function returned; store runs: last find
    store,    \* objects/: a function from <<dir name, file name>> to file bytes
    cwd,      \* the working directory that write-tree walks (never written)
    pc,       \* "idle" | "save" (between two saves) | "write" (file created)
    cmd,      \* the command being run, or last run, with its arguments
    queue,    \* the objects the running command still has to save
    out,      \* what the last command printed: an id, "" or an error mark
    before,   \* the store when the current command started
    saved,    \* ids (40 hex) whose save_object call has returned Ok
    hist      \* root id and store at the end of the last complete write-tree

vars == <<inp, res, store, cwd, pc, cmd, queue, out, before, saved, hist>>

----------------------------------------------------------------------------
(* Bytes and strings *)

NUL == 0
SP == 32
LF == 10
LT == 60
GT == 62
PLUS == 43
MINUS == 45
DOT == 46
HASH_LEN == 20
HEX_LEN == 40
PREFIX_LEN == 2
BIT15 == 32768
MODE_DIR == 16384
MODE_EXEC == 33261
MODE_FILE == 33188

S_blob == <<98, 108, 111, 98>>
S_tree == <<116, 114, 101, 101>>
S_commit == <<99, 111, 109, 109, 105, 116>>
S_parent == <<112, 97, 114, 101, 110, 116>>
S_author == <<97, 117, 116, 104, 111, 114>>
S_committer == <<99, 111, 109, 109, 105, 116, 116, 101, 114>>
S_JohnSmith == <<74, 111, 104, 110, 32, 83, 109, 105, 116, 104>>
S_JohnSmithMail == <<106, 111, 104, 110, 46, 115, 109, 105, 116, 104, 64, 101,
                     120, 97, 109, 112, 108, 101, 46, 99, 111, 109>>
S_JohnDoe == <<74, 111, 104, 110, 32, 68, 111, 101>>
S_JohnDoeMail == <<106, 111, 104, 110, 46, 100, 111, 101, 64, 101, 120, 97,
                   109, 112, 108, 101, 46, 99, 111, 109>>

IsDigit(b) == b >= 48 /\ b <= 57
IsOctDigit(b) == b >= 48 /\ b <= 55
IsUpperHex(b) == b >= 65 /\ b <= 70
\* char::is_ascii_hexdigit
IsHexDigit(b) == IsDigit(b) \/ (b >= 97 /\ b <= 102) \/ IsUpperHex(b)
\* u8::to_ascii_lowercase
ToLower(b) == IF b >= 65 /\ b <= 90 THEN b + 32 ELSE b
ToUpper(b) == IF b >= 97 /\ b <= 122 THEN b - 32 ELSE b
\* char::is_whitespace on the ASCII range (str::trim)
IsSpace(b) == b \in {9, 10, 11, 12, 13, 32}

SetMin(S) == CHOOSE x \in S : \A y \in S : x <= y

\* Iterator::position / str::find: the first index of byte b in s, 0 if none
Position(s, b) ==
    LET hits == {i \in 1..Len(s) : s[i] = b}
    IN  IF hits = {} THEN 0 ELSE SetMin(hits)

Take(s, n) == SubSeq(s, 1, n)
Drop(s, n) == SubSeq(s, n + 1, Len(s))

\* str::eq_ignore_ascii_case
EqIgnoreAsciiCase(a, b) ==
    /\ Len(a) = Len(b)
    /\ \A i \in 1..Len(a) : ToLower(a[i]) = ToLower(b[i])

\* str::cmp / [u8]::cmp: byte-wise lexicographic order, a < b
BytesLess(a, b) ==
    \E i \in 1..(Len(a) + 1) :
        /\ \A j \in 1..(i - 1) : j <= Len(b) /\ a[j] = b[j]
        /\ \/ (i = Len(a) + 1 /\ Len(b) >= i)
           \/ (i <= Len(a) /\ i <= Len(b) /\ a[i] < b[i])

\* std::str::from_utf8: is s well-formed UTF-8.  Every byte is either a
\* lead byte followed by the continuation bytes it announces, or one of the
\* continuation bytes of the lead byte one, two or three places before it.
IsCont(b) == b >= 128 /\ b <= 191
Utf8Follow(b) ==
    IF b < 128 THEN 0
    ELSE IF b >= 194 /\ b <= 223 THEN 1
    ELSE IF b >= 224 /\ b <= 239 THEN 2
    ELSE IF b >= 240 /\ b <= 244 THEN 3
    ELSE 0 - 1
IsUtf8(s) ==
    \A i \in 1..Len(s) :
        IF IsCont(s[i])
        THEN \E k \in 1..3 :
                /\ i - k >= 1
                /\ Utf8Follow(s[i - k]) >= k
                /\ \A j \in 1..(k - 1) : IsCont(s[i - j])
        ELSE /\ Utf8Follow(s[i]) >= 0
             /\ \A j \in 1..Utf8Follow(s[i]) : i + j <= Len(s) /\ IsCont(s[i + j])
             /\ (s[i] = 224 => s[i + 1] >= 160)
             /\ (s[i] = 237 => s[i + 1] <= 159)
             /\ (s[i] = 240 => s[i + 1] >= 144)
             /\ (s[i] = 244 => s[i + 1] <= 143)

\* str::trim
RECURSIVE TrimStart(_)
TrimStart(s) ==
    IF s # <<>> /\ IsSpace(s[1]) THEN TrimStart(Tail(s)) ELSE s
RECURSIVE TrimEnd(_)
TrimEnd(s) ==
    IF s # <<>> /\ IsSpace(s[Len(s)]) THEN TrimEnd(Take(s, Len(s) - 1)) ELSE s
Trim(s) == TrimEnd(TrimStart(s))

\* str::split_once(delim): <<found, before, after>>
SplitOnce(s, b) ==
    LET i == Position(s, b)
    IN  IF i = 0 THEN [ok |-> FALSE, l |-> <<>>, r |-> <<>>]
        ELSE [ok |-> TRUE, l |-> Take(s, i - 1), r |-> Drop(s, i)]

----------------------------------------------------------------------------
(* Numbers as text *)

\* usize::to_string / format!("{}")
RECURSIVE Dec(_)
Dec(n) == IF n < 10 THEN <<48 + n>> ELSE Dec(n \div 10) \o <<48 + (n % 10)>>

\* format!("{:o}")
RECURSIVE Oct(_)
Oct(n) == IF n < 8 THEN <<48 + n>> ELSE Oct(n \div 8) \o <<48 + (n % 8)>>

\* format!("{:06o}"): zero-padded to a width of six
Oct06(n) ==
    LET d == Oct(n)
    IN  IF Len(d) >= 6 THEN d ELSE [i \in 1..(6 - Len(d)) |-> 48] \o d

HexDigit(n) == IF n < 10 THEN 48 + n ELSE 87 + n
\* format!("{b:02x}")
Hex2(b) == <<HexDigit(b \div 16), HexDigit(b % 16)>>

\* a digit string without its leading zeros ("0" for zero): the value it
\* denotes, kept as text because a u64 is wider than the integers of TLC
RECURSIVE StripZeros(_)
StripZeros(d) == IF Len(d) > 1 /\ d[1] = 48 THEN StripZeros(Tail(d)) ELSE d

\* a <= b for stripped digit strings
DecLeq(a, b) ==
    \/ Len(a) < Len(b)
    \/ (Len(a) = Len(b) /\ (a = b \/ BytesLess(a, b)))

U64_MAX == <<49, 56, 52, 52, 54, 55, 52, 52, 48, 55, 51, 55, 48, 57, 53, 53,
             49, 54, 49, 53>>
I32_MAX == <<50, 49, 52, 55, 52, 56, 51, 54, 52, 55>>
I32_MIN_ABS == <<50, 49, 52, 55, 52, 56, 51, 54, 52, 56>>

\* str::parse::<usize>() and ::<u64>(): an optional '+', then one digit or
\* more, within 64 bits.  val is the stripped digit string.
ParseUnsigned(s) ==
    LET d == IF s # <<>> /\ s[1] = PLUS THEN Tail(s) ELSE s
        okDigits == d # <<>> /\ \A i \in 1..Len(d) : IsDigit(d[i])
    IN  IF okDigits /\ DecLeq(StripZeros(d), U64_MAX)
        THEN [ok |-> TRUE, val |-> StripZeros(d)]
        ELSE [ok |-> FALSE, val |-> <<>>]

\* str::parse::<i32>(): an optional '+' or '-', then one digit or more
ParseI32(s) ==
    LET neg == s # <<>> /\ s[1] = MINUS
        d == IF s # <<>> /\ s[1] \in {PLUS, MINUS} THEN Tail(s) ELSE s
        okDigits == d # <<>> /\ \A i \in 1..Len(d) : IsDigit(d[i])
        lim == IF neg THEN I32_MIN_ABS ELSE I32_MAX
    IN  IF okDigits /\ DecLeq(StripZeros(d), lim)
        THEN [ok |-> TRUE, neg |-> neg /\ StripZeros(d) # <<48>>,
              val |-> StripZeros(d)]
        ELSE [ok |-> FALSE, neg |-> FALSE, val |-> <<>>]

\* u32::from_str_radix(s, 8): an optional '+', then octal digits, within
\* 32 bits (0o37777777777 at most); the modes of the model stay below 2^31
RECURSIVE OctValue(_)
OctValue(d) ==
    IF d = <<>> THEN 0 ELSE 8 * OctValue(Take(d, Len(d) - 1)) + (d[Len(d)] - 48)
ParseOct(s) ==
    LET d == IF s # <<>> /\ s[1] = PLUS THEN Tail(s) ELSE s
    IN  IF d # <<>> /\ \A i \in 1..Len(d) : IsOctDigit(d[i])
           /\ \/ Len(StripZeros(d)) <= 10
              \/ (Len(StripZeros(d)) = 11 /\ StripZeros(d)[1] <= 51)
        THEN [ok |-> TRUE, val |-> OctValue(StripZeros(d))]
        ELSE [ok |-> FALSE, val |-> 0]

\* format!("{:+04}") of an i32: the sign always, zero-padded to a width of
\* four characters, sign included
FmtPlus04(n) ==
    LET a == IF n < 0 THEN 0 - n ELSE n
        d == Dec(a)
        pad == IF Len(d) >= 3 THEN <<>> ELSE [i \in 1..(3 - Len(d)) |-> 48]
    IN  <<IF n < 0 THEN MINUS ELSE PLUS>> \o pad \o d

----------------------------------------------------------------------------
(* Objects, their hash and their envelope *)

Blob(d) == [type |-> "Blob", kind |-> <<>>, data |-> d]
Tree(d) == [type |-> "Tree", kind |-> <<>>, data |-> d]
CommitObj(d) == [type |-> "Commit", kind |-> <<>>, data |-> d]
Unknown(k, d) == [type |-> "Unknown", kind |-> k, data |-> d]
NoObject == [type |-> "None", kind |-> <<>>, data |-> <<>>]

\* Object::kind
kind(o) ==
    CASE o.type = "Blob" -> S_blob
      [] o.type = "Commit" -> S_commit
      [] o.type = "Tree" -> S_tree
      [] OTHER -> o.kind

\* Object::contents_bytes
contents_bytes(o) == o.data

\* the bytes hashed by Object::hash and written by Object::write_to:
\* <kind> ' ' <decimal length> NUL <payload>
Envelope(o) ==
    kind(o) \o <<SP>> \o Dec(Len(contents_bytes(o))) \o <<NUL>>
            \o contents_bytes(o)

\* Sha1: a 20-byte digest computed from every byte of its input and from
\* the place of each byte.  It stands for SHA-1; it is deterministic and not
\* the identity, and two inputs may collide.
SHA_MOD == 65521
RECURSIVE Sha1Sum(_, _, _)
Sha1Sum(s, lo, hi) ==
    IF lo > hi THEN 0
    ELSE IF lo = hi THEN ((s[lo] + 1) * (lo * lo + 3 * lo + 1)) % SHA_MOD
    ELSE LET mid == (lo + hi) \div 2
         IN  (Sha1Sum(s, lo, mid) + Sha1Sum(s, mid + 1, hi)) % SHA_MOD
Sha1Fold(s, seed) == (Sha1Sum(s, 1, Len(s)) + 7 * Len(s) + seed) % SHA_MOD
Sha1(s) ==
    LET h == Sha1Fold(s, 7)
        b0 == h % 256
        b1 == h \div 256
    IN  [i \in 1..HASH_LEN |->
            IF i = 1 THEN b0 ELSE IF i = 2 THEN b1
            ELSE (b0 * i + b1 * (i + 1) + i) % 256]

\* Object::hash
hash(o) == Sha1(Envelope(o))

RECURSIVE HexOf(_)
HexOf(bs) == IF bs = <<>> THEN <<>> ELSE Hex2(Head(bs)) \o HexOf(Tail(bs))

\* Object::hash_string: 40 lowercase hex characters
hash_string(o) == HexOf(hash(o))

\* flate2's zlib stream, as a stored block: the two header bytes of the
\* fast level, the length, the bytes, and a checksum of the bytes
Adler(b) == Sha1Fold(b, 1)
Deflate(b) == <<120, 1, Len(b)>> \o b \o <<Adler(b)>>

\* ZlibDecoder::read_to_end.  A well-framed stream yields its bytes (what
\* follows the stream is not read).  A stream cut short yields an error or
\* the bytes it holds, whichever the decoder does: both are outcomes.
\* Anything else is an error.
Inflate(f) ==
    LET n == Len(f)
        headOk == /\ (n >= 1 => f[1] = 120) /\ (n >= 2 => f[2] = 1)
        whole == n >= 4 /\ headOk /\ n >= f[3] + 4
        body == SubSeq(f, 4, f[3] + 3)
        err == [ok |-> FALSE, data |-> <<>>]
    IN  IF whole
        THEN IF f[f[3] + 4] = Adler(body)
             THEN {[ok |-> TRUE, data |-> body]} ELSE {err}
        ELSE IF headOk
             THEN {err, [ok |-> TRUE, data |-> IF n > 3 THEN Drop(f, 3) ELSE <<>>]}
             ELSE {err}

write_to_NoNul(o) ==
    Deflate(kind(o) \o <<SP>> \o Dec(Len(contents_bytes(o))) \o contents_bytes(o))

\* Object::write_to, once it has returned: the bytes of the file
write_to(o) == Deflate(Envelope(o))

----------------------------------------------------------------------------
(* Commit text *)

PersonErr == [ok |-> FALSE, name |-> <<>>, email |-> <<>>,
              timestamp |-> <<>>, tzneg |-> FALSE, tz |-> <<>>]

\* PersonLine::try_from
PersonLine_try_from(value) ==
    LET s1 == SplitOnce(value, LT)
        s2 == SplitOnce(s1.r, GT)
        s3 == SplitOnce(Trim(s2.r), SP)
        ts == ParseUnsigned(s3.l)
        tz == ParseI32(s3.r)
    IN  IF ~s1.ok THEN PersonErr
        ELSE IF ~s2.ok THEN PersonErr
        ELSE IF ~s3.ok THEN PersonErr
        ELSE IF ~ts.ok THEN PersonErr
        ELSE IF ~tz.ok THEN PersonErr
        ELSE [ok |-> TRUE, name |-> Trim(s1.l), email |-> s2.l,
              timestamp |-> ts.val, tzneg |-> tz.neg, tz |-> tz.val]

IsHexId(v) == Len(v) = HEX_LEN /\ \A i \in 1..Len(v) : IsHexDigit(v[i])

CommitErr == [ok |-> FALSE, tree_hash |-> <<>>, parent_hashes |-> <<>>,
              author |-> PersonErr, committer |-> PersonErr, message |-> <<>>]

\* CommitData::try_from: the loop over the header lines.  tree, author and
\* committer are options: <<>> is None, <<x>> is Some(x).
RECURSIVE CommitLines(_, _, _, _, _)
CommitLines(value, tree, parents, author, committer) ==
    LET ln == SplitOnce(value, LF)
        kv == SplitOnce(ln.l, SP)
        tag == kv.l
        v == kv.r
        person == PersonLine_try_from(v)
    IN  IF ~ln.ok THEN CommitErr
        ELSE IF ln.l = <<>>
        THEN IF tree = <<>> \/ author = <<>> \/ committer = <<>>
             THEN CommitErr
             ELSE [ok |-> TRUE, tree_hash |-> tree[1],
                   parent_hashes |-> parents, author |-> author[1],
                   committer |-> committer[1], message |-> ln.r]
        ELSE IF ~kv.ok THEN CommitErr
        ELSE IF tag = S_tree
        THEN IF tree = <<>> /\ IsHexId(v)
             THEN CommitLines(ln.r, <<v>>, parents, author, committer)
             ELSE CommitErr
        ELSE IF tag = S_author
        THEN IF author = <<>> /\ person.ok
             THEN CommitLines(ln.r, tree, parents, <<person>>, committer)
             ELSE CommitErr
        ELSE IF tag = S_committer
        THEN IF committer = <<>> /\ person.ok
             THEN CommitLines(ln.r, tree, parents, author, <<person>>)
             ELSE CommitErr
        ELSE IF tag = S_parent
        THEN IF IsHexId(v)
             THEN CommitLines(ln.r, tree, Append(parents, v), author, committer)
             ELSE CommitErr
        ELSE CommitErr

CommitData_try_from(value) == CommitLines(value, <<>>, <<>>, <<>>, <<>>)

\* impl Into<Commit> for CommitData: the text of the commit.  A person is
\* [name, email, timestamp, timezone] with numbers for the last two.
PersonText(tag, p) ==
    <<LF>> \o tag \o <<SP>> \o p.name \o <<SP, LT>> \o p.email \o <<GT, SP>>
           \o Dec(p.timestamp) \o <<SP>> \o FmtPlus04(p.timezone)

RECURSIVE ParentsText(_)
ParentsText(ps) ==
    IF ps = <<>> THEN <<>>
    ELSE <<LF>> \o S_parent \o <<SP>> \o Head(ps) \o ParentsText(Tail(ps))

CommitData_into(c) ==
    S_tree \o <<SP>> \o c.tree_hash \o ParentsText(c.parent_hashes)
           \o PersonText(S_author, c.author)
           \o PersonText(S_committer, c.committer)
           \o <<LF, LF>> \o c.message

\* Commit::try_from(&[u8]): does the payload parse as a commit
Commit_try_from(value) == IsUtf8(value) /\ CommitData_try_from(value).ok

----------------------------------------------------------------------------
(* Decoding an object file *)

DecodeErr == [ok |-> FALSE, obj |-> NoObject]

SizeMatches_Unchecked(object_size, object_data) == TRUE

\* anyhow::ensure!(object_size == object_data.len())
SizeMatches(object_size, object_data) == object_size.val = Dec(Len(object_data))

\* Object::from_path, from the decompressed contents on
from_contents(contents) ==
    LET index_first_zero == Position(contents, NUL)
        header == Take(contents, index_first_zero - 1)
        hs == SplitOnce(header, SP)
        object_type == hs.l
        object_data == Drop(contents, index_first_zero)
        object_size == ParseUnsigned(hs.r)
    IN  IF index_first_zero = 0 THEN DecodeErr
        ELSE IF ~IsUtf8(header) THEN DecodeErr
        ELSE IF ~hs.ok THEN DecodeErr
        ELSE IF ~object_size.ok THEN DecodeErr
        ELSE IF ~SizeMatches(object_size, object_data) THEN DecodeErr
        ELSE IF object_type = S_blob THEN [ok |-> TRUE, obj |-> Blob(object_data)]
        ELSE IF object_type = S_commit
        THEN IF Commit_try_from(object_data)
             THEN [ok |-> TRUE, obj |-> CommitObj(object_data)]
             ELSE DecodeErr
        ELSE IF object_type = S_tree THEN [ok |-> TRUE, obj |-> Tree(object_data)]
        ELSE [ok |-> TRUE, obj |-> Unknown(object_type, object_data)]

\* Object::from_path on the bytes of an existing file: every result the
\* decoder allows
from_path(file) ==
    {IF z.ok THEN from_contents(z.data) ELSE DecodeErr : z \in Inflate(file)}

----------------------------------------------------------------------------
(* Tree payloads *)

NoItem == [mode |-> 0, name |-> <<>>, hash |-> <<>>]

\* TreeItem::parse: "ok" with the item and the rest, "err" for an Err, and
\* "panic" where slice::split_at(20) is handed fewer than 20 bytes
TreeItem_parse(data) ==
    LET index_first_zero == Position(data, NUL)
        header == Take(data, index_first_zero - 1)
        after == Drop(data, index_first_zero)
        hs == SplitOnce(header, SP)
        mode == ParseOct(hs.l)
        bad(st) == [status |-> st, rest |-> <<>>, item |-> NoItem]
    IN  IF index_first_zero = 0 THEN bad("err")
        ELSE IF Len(after) < HASH_LEN THEN bad("panic")
        ELSE IF ~IsUtf8(header) THEN bad("err")
        ELSE IF ~hs.ok THEN bad("err")
        ELSE IF ~mode.ok THEN bad("err")
        ELSE [status |-> "ok", rest |-> Drop(after, HASH_LEN),
              item |-> [mode |-> mode.val, name |-> hs.r,
                        hash |-> Take(after, HASH_LEN)]]

\* TreeDataIterator::next, run to its end (TreeData::iter().collect()):
\* an Err of parse ends the iteration as None does; a panic is a panic
RECURSIVE IterFrom(_, _)
IterFrom(data, acc) ==
    LET r == TreeItem_parse(data)
    IN  IF r.status = "ok" THEN IterFrom(r.rest, Append(acc, r.item))
        ELSE [panic |-> r.status = "panic", items |-> acc]

TreeData_iter(data) == IterFrom(data, <<>>)

\* TreeItem::is_file
is_file(item) == (item.mode \div BIT15) % 2 = 1

\* TreeData::add_item
add_item(data, item) ==
    data \o Oct(item.mode) \o <<SP>> \o item.name \o <<NUL>> \o item.hash

\* the mode add_object writes: bit 15 cleared for a tree, set otherwise
EntryMode(object, mode) ==
    IF object.type = "Tree"
    THEN IF (mode \div BIT15) % 2 = 1 THEN mode - BIT15 ELSE mode
    ELSE IF (mode \div BIT15) % 2 = 1 THEN mode ELSE mode + BIT15

\* TreeData::add_object
add_object(data, object, name, mode) ==
    data \o Oct(EntryMode(object, mode)) \o <<SP>> \o name \o <<NUL>>
         \o hash(object)

\* slice::sort_by(|a, b| a.name.cmp(&b.name)): a stable sort by name
RECURSIVE InsertByName(_, _)
InsertByName(sorted, x) ==
    IF sorted = <<>> THEN <<x>>
    ELSE LET last == sorted[Len(sorted)]
         IN  IF BytesLess(x.name, last.name)
             THEN Append(InsertByName(Take(sorted, Len(sorted) - 1), x), last)
             ELSE Append(sorted, x)

RECURSIVE SortByName(_)
SortByName(items) ==
    IF items = <<>> THEN <<>>
    ELSE InsertByName(SortByName(Take(items, Len(items) - 1)),
                      items[Len(items)])

RECURSIVE AddItems(_, _)
AddItems(data, items) ==
    IF items = <<>> THEN data
    ELSE AddItems(add_item(data, Head(items)), Tail(items))

TreeData_sort_Unsorted(data) ==
    LET it == TreeData_iter(data)
    IN  [panic |-> it.panic,
         data |-> IF it.panic THEN data ELSE AddItems(<<>>, it.items)]

\* TreeData::sort: the entries the iterator yields, sorted and written again
TreeData_sort(data) ==
    LET it == TreeData_iter(data)
    IN  [panic |-> it.panic,
         data |-> IF it.panic THEN data ELSE AddItems(<<>>, SortByName(it.items))]

----------------------------------------------------------------------------
(* The directory walk of write-tree *)

\* A directory is the sequence of its entries in the order read_dir yields
\* them; an entry is [name, type, perm, content, kids] with type "file",
\* "dir" or "other" (a symlink, a socket, ...).
File(n, perm, content) ==
    [name |-> n, type |-> "file", perm |-> perm, content |-> content,
     kids |-> <<>>]
Dir(n, kids) ==
    [name |-> n, type |-> "dir", perm |-> 493, content |-> <<>>, kids |-> kids]
Other(n) ==
    [name |-> n, type |-> "other", perm |-> 511, content |-> <<>>, kids |-> <<>>]

\* 0 != (metadata.mode() & 0o111)
is_executable(perm) ==
    \E b \in {1, 8, 64} : (perm \div b) % 2 = 1

starts_with_Never(file_name, c) == FALSE

\* str::starts_with(char)
starts_with(file_name, c) == file_name # <<>> /\ file_name[1] = c

\* build_tree_for_directory: status "ok", "err" (an Err returned) or "panic"
\* (todo!, or a panic of sort); objects is the flat list, grown in place
RECURSIVE build_tree_for_directory(_, _)
RECURSIVE WalkEntries(_, _, _)
WalkEntries(objects, entries, tree) ==
    IF entries = <<>>
    THEN LET s == TreeData_sort(tree)
         IN  [status |-> IF s.panic THEN "panic" ELSE "ok",
              objects |-> objects, tree |-> s.data]
    ELSE LET file == Head(entries)
             sub == build_tree_for_directory(objects, file.kids)
             stop(st) == [status |-> st, objects |-> objects, tree |-> tree]
         IN  IF ~IsUtf8(file.name) THEN stop("err")
             ELSE IF file.type = "dir"
             THEN IF starts_with(file.name, DOT)
                  THEN WalkEntries(objects, Tail(entries), tree)
                  ELSE IF sub.status # "ok"
                  THEN [status |-> sub.status, objects |-> sub.objects,
                        tree |-> tree]
                  ELSE WalkEntries(
                           Append(sub.objects, Tree(sub.tree)),
                           Tail(entries),
                           add_object(tree, Tree(sub.tree), file.name, MODE_DIR))
             ELSE IF file.type = "file"
             THEN WalkEntries(
                      Append(objects, Blob(file.content)),
                      Tail(entries),
                      add_object(tree, Blob(file.content), file.name,
                                 IF is_executable(file.perm)
                                 THEN MODE_EXEC ELSE MODE_FILE))
             ELSE stop("panic")

build_tree_for_directory(objects, path) == WalkEntries(objects, path, <<>>)

----------------------------------------------------------------------------
(* The store: objects/<2 hex>/<38 hex> *)

\* ObjectRef::from_sha1
ObjectRef_from_sha1(h) == IsHexId(h)
\* ObjectRef::hash_prefix
hash_prefix(ref) == Take(ref, PREFIX_LEN)
\* ObjectRef::matches_remainder
matches_remainder(ref, remainder) ==
    EqIgnoreAsciiCase(remainder, Drop(ref, PREFIX_LEN))
\* ObjectRef::matches
matches(ref, h) == EqIgnoreAsciiCase(ref, h)

FindErr == [ok |-> FALSE, obj |-> NoObject]

HashChecked_Skipped(ref, object) == TRUE

\* the check of the recomputed hash in find_object
HashChecked(ref, object) == matches(ref, hash_string(object))

\* Repository::find_object on the store st: every result it may return.
\* read_dir yields entries in no fixed order and find_map takes the first
\* match, so each matching directory, and each matching file in it, is a
\* possible pick.
find_object(st, ref) ==
    LET containers == {p[1] : p \in {q \in DOMAIN st :
                           EqIgnoreAsciiCase(q[1], hash_prefix(ref))}}
        filesOf(c) == {p \in DOMAIN st :
                           p[1] = c /\ matches_remainder(ref, p[2])}
        inContainer(c) ==
            IF filesOf(c) = {} THEN {FindErr}
            ELSE UNION {{IF r.ok /\ HashChecked(ref, r.obj) THEN r ELSE FindErr
                            : r \in from_path(st[p])} : p \in filesOf(c)}
    IN  IF containers = {} THEN {FindErr}
        ELSE UNION {inContainer(c) : c \in containers}

PathOf_WholeName(object) ==
    <<Take(hash_string(object), PREFIX_LEN), hash_string(object)>>

\* the path save_object writes
PathOf(object) ==
    <<Take(hash_string(object), PREFIX_LEN), Drop(hash_string(object), PREFIX_LEN)>>

\* a store with file bytes f at path p (created or replaced)
WithFile(st, p, f) ==
    [q \in DOMAIN st \cup {p} |-> IF q = p THEN f ELSE st[q]]

File_create_NoTruncate(st, p) ==
    IF p \in DOMAIN st THEN st ELSE WithFile(st, p, <<>>)

\* fs::File::create in write_to: the file exists and is empty
File_create(st, p) == WithFile(st, p, <<>>)

\* the writes of write_to and its flush: bytes land after what the file holds
File_write(st, p, bytes) == WithFile(st, p, st[p] \o bytes)

\* Repository::save_object, once it has returned Ok
save_object(st, object) ==
    File_write(File_create(st, PathOf(object)), PathOf(object), write_to(object))

----------------------------------------------------------------------------
(* Bounds and input sets *)

MaxPayload == 2
MaxEntries == 3

SeqsUpTo(S, n) == UNION {[1..k -> S] : k \in 0..n}
Range(s) == {s[i] : i \in 1..Len(s)}
Perms(s) ==
    {[i \in 1..Len(s) |-> s[f[i]]] :
        f \in {g \in [1..Len(s) -> 1..Len(s)] : Range(g) = 1..Len(s)}}
Upper(s) == [i \in 1..Len(s) |-> ToUpper(s[i])]

\* payload bytes: NUL, space, a digit, a letter and a byte that is no UTF-8
PayloadBytes == {0, 32, 49, 98, 255}
Payloads == SeqsUpTo(PayloadBytes, MaxPayload)

S_a == <<97>>
S_b == <<98>>
S_ab == <<97, 98>>
S_a_b == <<97, 32, 98>>
S_B == <<66>>
S_msg == <<97, 10, 10, 98, 10>>

EmptyBlobId == hash_string(Blob(<<>>))

Person(n, e, ts, tz) == [name |-> n, email |-> e, timestamp |-> ts, timezone |-> tz]

\* the CommitData of cmd_commit_tree for a clock reading of now seconds
NewCommitData(tree_sha, parents, message, now) ==
    [tree_hash |-> tree_sha, parent_hashes |-> parents,
     author |-> Person(S_JohnSmith, S_JohnSmithMail, now, 0),
     committer |-> Person(S_JohnDoe, S_JohnDoeMail, now, 0),
     message |-> message]

\* commit payloads within the grammar: CommitData values, serialized
CommitDatas ==
    {[tree_hash |-> t, parent_hashes |-> ps,
      author |-> Person(S_JohnSmith, S_JohnSmithMail, 1700000000, tz),
      committer |-> Person(S_a, <<>>, 0, 0 - tz),
      message |-> m] :
        t \in {EmptyBlobId, Upper(EmptyBlobId)},
        ps \in SeqsUpTo({EmptyBlobId}, MaxPayload),
        tz \in {0, 100, 1000},
        m \in {<<>>, S_a, S_msg}}

UnknownKinds == {<<>>, S_a, S_blob \o S_a, <<195, 169>>}

\* an entry handed to add_object, with the mode write-tree gives its kind
Add(object, name, mode) == [object |-> object, name |-> name, mode |-> mode]
AddPool ==
    {Add(Blob(<<>>), S_a, MODE_FILE), Add(Blob(S_a), S_b, MODE_EXEC),
     Add(Tree(<<>>), S_ab, MODE_DIR), Add(Blob(<<0, 32>>), S_a_b, MODE_FILE),
     Add(Tree(<<>>), S_B, MODE_DIR)}
AddLists ==
    {s \in SeqsUpTo(AddPool, MaxEntries) :
        \A i, j \in 1..Len(s) : i # j => s[i].name # s[j].name}

RECURSIVE AddAll(_, _)
AddAll(data, adds) ==
    IF adds = <<>> THEN data
    ELSE AddAll(add_object(data, Head(adds).object, Head(adds).name,
                           Head(adds).mode), Tail(adds))

RoundTripObjects ==
    {Blob(d) : d \in Payloads} \cup {Tree(d) : d \in Payloads}
    \cup {Tree(TreeData_sort(AddAll(<<>>, a)).data) : a \in AddLists}
    \cup {CommitObj(CommitData_into(c)) : c \in CommitDatas}
    \cup {Unknown(k, d) : k \in UnknownKinds, d \in {<<>>, <<0>>, S_a_b}}

\* decompressed envelopes, well-formed and not: a header, a NUL or none,
\* a payload
S_1 == <<49>>
EnvHeaders ==
    {S_blob \o <<SP>> \o n : n \in {<<>>, S_1, <<48, 49>>, <<PLUS, 49>>,
                                    <<MINUS, 49>>, <<49, SP>>, <<SP, 49>>, S_a,
                                    <<50>>, U64_MAX, U64_MAX \o <<48>>}}
    \cup {S_blob, <<>>, <<SP, 49>>, <<255, SP, 49>>, S_tree \o <<SP, 49>>,
          S_commit \o <<SP, 49>>, S_a \o <<SP, 48>>}
EnvInputs ==
    {h \o z \o d : h \in EnvHeaders, z \in {<<>>, <<NUL>>},
                   d \in {<<>>, S_a, <<97, NUL>>, S_ab}}

\* tree payloads: entries, well-formed and not
Hash20(b) == [i \in 1..HASH_LEN |-> IF i = 3 THEN NUL ELSE b]
S_100644 == Oct(MODE_FILE)
EntryOk(n) == S_100644 \o <<SP>> \o n \o <<NUL>> \o Hash20(7)
BadEntries ==
    {S_100644 \o <<SP>> \o S_b,
     S_100644 \o S_b \o <<NUL>> \o Hash20(8),
     S_100644 \o <<SP>> \o S_b \o <<NUL>> \o Take(Hash20(8), HASH_LEN - 1),
     S_100644 \o <<SP>> \o S_b \o <<NUL>>,
     S_100644 \o <<SP>> \o S_b \o <<NUL, SP>>}
TreeInputs ==
    {p \o m \o q : p \in {<<>>, EntryOk(S_a), EntryOk(S_a) \o EntryOk(S_ab)},
                   m \in BadEntries \cup {<<>>, EntryOk(S_b)},
                   q \in {<<>>, EntryOk(S_a_b)}}

\* tree payloads whose entries carry the modes of a regular file, an
\* executable, a directory, a symbolic link (0o120000), a submodule
\* (0o160000), and modes where bit 15 and the file-type field disagree,
\* up to the largest the integers of TLC hold
EntryModes ==
    {MODE_FILE, MODE_EXEC, MODE_DIR, 40960, 57344, 0, 511, BIT15, 36864,
     49152, 65536, 98724, 2147483647}
ModeEntry(m, n) == Oct(m) \o <<SP>> \o n \o <<NUL>> \o Hash20(7)
ModeInputs ==
    {ModeEntry(m, S_a) : m \in EntryModes}
    \cup {ModeEntry(m1, S_a) \o ModeEntry(m2, S_b) :
              m1 \in {MODE_FILE, MODE_DIR, 40960}, m2 \in EntryModes}

\* CommitData values within the grammar (no '<' in a name, no '>' in an
\* email, no line feed in either, a name without surrounding blanks), with
\* the timezones of commit-tree (0), of one to five digits and of both signs
Timezones == {0, 5, 0 - 5, 30, 100, 0 - 100, 530, 0 - 530, 999, 1000,
              0 - 1200, 1400, 12345}
StampInputs ==
    {[tree_hash |-> EmptyBlobId, parent_hashes |-> ps,
      author |-> Person(n, S_JohnSmithMail, ts, tz),
      committer |-> Person(S_JohnDoe, e, 1700000000, 0 - tz),
      message |-> m] :
        ps \in {<<>>, <<Upper(EmptyBlobId), EmptyBlobId>>},
        n \in {S_JohnSmith, <<>>}, e \in {S_JohnDoeMail, <<>>},
        ts \in {0, 1700000000}, tz \in Timezones, m \in {<<>>, S_msg}}
    \cup {NewCommitData(EmptyBlobId, ps, S_a \o <<LF>>, 1700000000) :
              ps \in {<<>>, <<EmptyBlobId>>}}

----------------------------------------------------------------------------
(* SpecCodec: the pure functions, each applied to one drawn input *)

NoCmd == [name |-> "none", file |-> <<>>, write |-> FALSE, tree_sha |-> <<>>,
          parents |-> <<>>, message |-> <<>>, ref |-> <<>>, objects |-> <<>>,
          root |-> <<>>]
NoHist == [valid |-> FALSE, root |-> <<>>, store |-> <<>>, runs |-> 0]
NoOut == [status |-> "", text |-> <<>>]

Input(op, obj, bytes, adds) ==
    [op |-> op, obj |-> obj, bytes |-> bytes, adds |-> adds]
NoRes == [op |-> "none", results |-> {}, status |-> "", data |-> <<>>,
          items |-> <<>>]

StoreIdle ==
    /\ store = <<>> /\ cwd = <<>> /\ pc = "codec" /\ cmd = NoCmd
    /\ queue = <<>> /\ out = NoOut /\ before = <<>> /\ saved = {}
    /\ hist = NoHist

InitCodec ==
    /\ inp \in {Input("roundtrip", x, <<>>, <<>>) : x \in RoundTripObjects}
          \cup {Input("decode", NoObject, b, <<>>) : b \in EnvInputs}
          \cup {Input("sort", NoObject, <<>>, a) : a \in AddLists}
          \cup {Input("list", NoObject, b, <<>>) : b \in TreeInputs}
          \cup {Input("ls-tree", NoObject, b, <<>>) : b \in ModeInputs}
          \cup {Input("commit", c, <<>>, <<>>) : c \in StampInputs}
    /\ res = NoRes
    /\ StoreIdle

storeVars == <<store, cwd, pc, cmd, queue, out, before, saved, hist>>

\* write_to a file, then from_path on it
RoundTrip ==
    /\ inp.op = "roundtrip" /\ res.op = "none"
    /\ res' = [NoRes EXCEPT !.op = "roundtrip",
                            !.results = from_path(write_to(inp.obj))]
    /\ UNCHANGED <<inp, storeVars>>

\* from_path on a file whose decompressed bytes are inp.bytes
Decode ==
    /\ inp.op = "decode" /\ res.op = "none"
    /\ res' = [NoRes EXCEPT !.op = "decode",
                            !.results = from_path(Deflate(inp.bytes))]
    /\ UNCHANGED <<inp, storeVars>>

\* TreeData::empty, add_object for each entry in turn, then sort
SortTree ==
    /\ inp.op = "sort" /\ res.op = "none"
    /\ LET s == TreeData_sort(AddAll(<<>>, inp.adds))
       IN  res' = [NoRes EXCEPT !.op = "sort",
                                !.status = IF s.panic THEN "panic" ELSE "ok",
                                !.data = s.data]
    /\ UNCHANGED <<inp, storeVars>>

\* from_path on a tree object with payload inp.bytes, then the listing of
\* its entries as cmd_ls_tree and cmd_cat_file read it
ListTree ==
    /\ inp.op = "list" /\ res.op = "none"
    /\ LET d == from_contents(Envelope(Tree(inp.bytes)))
           it == TreeData_iter(d.obj.data)
       IN  res' = [NoRes EXCEPT
                      !.op = "list",
                      !.status = IF ~d.ok THEN "err"
                                 ELSE IF it.panic THEN "panic" ELSE "ok",
                      !.items = it.items]
    /\ UNCHANGED <<inp, storeVars>>

\* one line of cmd_ls_tree, and of cmd_cat_file -p on a tree:
\* "{mode:06o} {kind} {hash}    {name}", kept as its four fields
TreeLine(item) ==
    [mode |-> Oct06(item.mode),
     kind |-> IF is_file(item) THEN "blob" ELSE "tree",
     hash |-> HexOf(item.hash),
     name |-> item.name]

\* cmd_ls_tree without --name-only on a tree object with payload inp.bytes:
\* the lines it prints
LsTree ==
    /\ inp.op = "ls-tree" /\ res.op = "none"
    /\ LET d == from_contents(Envelope(Tree(inp.bytes)))
           it == TreeData_iter(d.obj.data)
       IN  res' = [NoRes EXCEPT
                      !.op = "ls-tree",
                      !.status = IF ~d.ok \/ d.obj.type # "Tree" THEN "err"
                                 ELSE IF it.panic THEN "panic" ELSE "ok",
                      !.items = [i \in 1..Len(it.items) |->
                                    TreeLine(it.items[i])]]
    /\ UNCHANGED <<inp, storeVars>>

\* CommitData into Commit, as cmd_commit_tree does, then the text parsed
\* back as Commit::try_from and cat-file do
SerializeCommit ==
    /\ inp.op = "commit" /\ res.op = "none"
    /\ LET text == CommitData_into(inp.obj)
       IN  res' = [NoRes EXCEPT
                      !.op = "commit",
                      !.status = IF Commit_try_from(text) THEN "ok" ELSE "err",
                      !.data = text,
                      !.results = {CommitData_try_from(text)}]
    /\ UNCHANGED <<inp, storeVars>>

NextCodec ==
    \/ RoundTrip \/ Decode \/ SortTree \/ ListTree \/ LsTree
    \/ SerializeCommit

SpecCodec == InitCodec /\ [][NextCodec]_vars

----------------------------------------------------------------------------
(* Claims about the codec *)

\* C1: decoding the file that write_to produces for an object x (a Blob, a
\* Tree, a Commit within the grammar, an Unknown whose kind has no space and
\* no NUL) yields exactly x: the same kind and the same payload bytes.
C1_RoundTrip ==
    res.op = "roundtrip" => res.results = {[ok |-> TRUE, obj |-> inp.obj]}

\* a commit with a parent line and a message has made the round trip
C1_Witness ==
    /\ res.op = "roundtrip"
    /\ inp.obj.type = "Commit"
    /\ Position(inp.obj.data, LT) > 0
    /\ CommitData_try_from(inp.obj.data).parent_hashes # <<>>
    /\ CommitData_try_from(inp.obj.data).message = S_msg
    /\ \E r \in res.results : r.ok /\ r.obj.data = inp.obj.data

\* the five failures the envelope grammar names, read off the bytes
NoNulByte(c) == Position(c, NUL) = 0
EnvHeader(c) == Take(c, Position(c, NUL) - 1)
EnvSizeText(c) == Drop(EnvHeader(c), Position(EnvHeader(c), SP))
EnvPayloadLen(c) == Len(c) - Position(c, NUL)
BadEnvelope(c) ==
    \/ NoNulByte(c)
    \/ ~IsUtf8(EnvHeader(c))
    \/ Position(EnvHeader(c), SP) = 0
    \/ ~ParseUnsigned(EnvSizeText(c)).ok
    \/ ParseUnsigned(EnvSizeText(c)).val # Dec(EnvPayloadLen(c))

\* C6: decoding fails, and yields no object, when the decompressed bytes hold
\* no NUL, the header is not UTF-8, the header has no space, the text after
\* the first space is no unsigned integer, or the length it states differs
\* from the number of payload bytes.
C6_MalformedEnvelope ==
    (res.op = "decode" /\ BadEnvelope(inp.bytes))
        => \A r \in res.results : ~r.ok /\ r.obj = NoObject

\* a well-formed header whose length is one off has been refused
C6_Witness ==
    /\ res.op = "decode"
    /\ ~NoNulByte(inp.bytes)
    /\ EnvHeader(inp.bytes) = S_blob \o <<SP>> \o S_1
    /\ EnvPayloadLen(inp.bytes) = 2
    /\ res.results = {DecodeErr}

\* C5: the entries added in any order, once sorted, give the same payload
\* bytes and the same tree id; the payload is the entries in ascending
\* byte-wise name order, each added entry once and nothing else.
C5_Canonical ==
    res.op = "sort" =>
        LET items == TreeData_iter(res.data).items
            entry(a) == [mode |-> a.mode, name |-> a.name, hash |-> hash(a.object)]
        IN  /\ res.status = "ok"
            /\ \A p \in Perms(inp.adds) :
                  LET d == TreeData_sort(AddAll(<<>>, p)).data
                  IN  d = res.data /\ hash_string(Tree(d)) = hash_string(Tree(res.data))
            /\ res.data = AddItems(<<>>, items)
            /\ \A i \in 1..(Len(items) - 1) :
                  BytesLess(items[i].name, items[i + 1].name)
            /\ Len(items) = Len(inp.adds)
            /\ \A a \in Range(inp.adds) :
                  Cardinality({i \in 1..Len(items) : items[i] = entry(a)}) = 1

\* three entries added in descending name order have been sorted
C5_Witness ==
    /\ res.op = "sort" /\ res.status = "ok"
    /\ Len(inp.adds) = 3
    /\ BytesLess(inp.adds[2].name, inp.adds[1].name)
    /\ BytesLess(inp.adds[3].name, inp.adds[2].name)
    /\ Len(TreeData_iter(res.data).items) = 3

\* an entry of the stream that has no NUL after it, no space before its NUL,
\* or fewer than 20 bytes after its NUL
RECURSIVE HasMalformedEntry(_)
HasMalformedEntry(data) ==
    IF data = <<>> THEN FALSE
    ELSE LET z == Position(data, NUL)
         IN  \/ z = 0
             \/ Position(Take(data, z - 1), SP) = 0
             \/ Len(data) - z < HASH_LEN
             \/ HasMalformedEntry(Drop(data, z + HASH_LEN))

\* C7: a tree payload with a malformed entry fails to decode with an error:
\* no listing that stops early, no crash.
C7_MalformedTreeFails ==
    (res.op = "list" /\ HasMalformedEntry(inp.bytes)) => res.status = "err"

\* C7, what the code does instead: the listing ends silently before the
\* malformed entry, or the process panics
C7_NeverEndsEarly ==
    (res.op = "list" /\ HasMalformedEntry(inp.bytes)) => res.status # "ok"
C7_NeverPanics == res.status # "panic"

----------------------------------------------------------------------------
(* Spec: the commands, run one after another on a repository that init made *)

MaxCommits == 1
MaxParents == 1

S_git == <<DOT, 103, 105, 116>>
S_HEAD == <<72, 69, 65, 68>>
S_hidden == <<DOT, 104>>
S_d == <<100>>
S_e == <<101>>

\* working directories, as read_dir lists them; permissions 0o644 = 420,
\* 0o755 = 493, 0o744 = 484
WorkDirs ==
    {<<File(S_b, 420, S_a), File(S_a, 493, <<>>)>>,
     <<Dir(S_git, <<File(S_HEAD, 420, S_a)>>),
       Dir(S_d, <<File(S_b, 484, S_a), Dir(S_e, <<File(S_a_b, 420, S_ab)>>),
                  Dir(S_hidden, <<File(S_a, 420, S_b)>>),
                  File(S_a, 420, <<>>)>>),
       File(S_hidden, 420, S_a)>>,
     <<Dir(S_d, <<>>), File(S_a, 420, S_a)>>,
     <<File(S_a, 420, S_a), Other(S_b)>>,
     <<Dir(S_d, <<File(<<255>>, 420, S_a)>>), File(S_a, 420, <<>>)>>,
     <<Dir(S_git, <<Other(S_b), File(<<255>>, 420, S_a)>>),
       File(S_b, 420, S_b)>>}

\* the files hash-object is pointed at
FileContents == {<<>>, S_a}

AbsentId == [i \in 1..HEX_LEN |-> 102]
BadId == S_a_b

Ok(text) == [status |-> "ok", text |-> text]
Failed == [status |-> "error", text |-> <<>>]
Panicked == [status |-> "panic", text |-> <<>>]

InitStore ==
    /\ inp = Input("none", NoObject, <<>>, <<>>)
    /\ res = NoRes
    /\ store = <<>>
    /\ cwd \in WorkDirs
    /\ pc = "idle" /\ cmd = NoCmd /\ queue = <<>> /\ out = NoOut
    /\ before = <<>> /\ saved = {} /\ hist = NoHist

\* cmd_hash_object: the id is printed, then the blob is saved under -w
CmdHashObject ==
    /\ pc = "idle"
    /\ \E data \in FileContents, w \in BOOLEAN :
          /\ cmd' = [NoCmd EXCEPT !.name = "hash-object", !.file = data,
                                  !.write = w, !.objects = <<Blob(data)>>]
          /\ out' = Ok(hash_string(Blob(data)))
          /\ queue' = IF w THEN <<Blob(data)>> ELSE <<>>
          /\ pc' = IF w THEN "save" ELSE "idle"
    /\ before' = store
    /\ res' = NoRes
    /\ UNCHANGED <<inp, store, cwd, saved, hist>>

FlatList_RootFirst(objects, tree) == <<tree>> \o objects

\* cmd_write_tree: objects.push(tree), the list the save loop runs over
FlatList(objects, tree) == Append(objects, tree)

\* cmd_write_tree up to its save loop: the walk of the working directory in
\* the order read_dir happens to list it
CmdWriteTree ==
    /\ pc = "idle"
    /\ \E listing \in Perms(cwd) :
          LET b == build_tree_for_directory(<<>>, listing)
              objects == FlatList(b.objects, Tree(b.tree))
          IN  IF b.status = "ok"
              THEN /\ cmd' = [NoCmd EXCEPT !.name = "write-tree",
                                           !.objects = objects,
                                           !.root = hash_string(Tree(b.tree))]
                   /\ queue' = objects
                   /\ pc' = "save"
                   /\ out' = NoOut
              ELSE /\ cmd' = [NoCmd EXCEPT !.name = "write-tree"]
                   /\ queue' = <<>>
                   /\ pc' = "idle"
                   /\ out' = IF b.status = "err" THEN Failed ELSE Panicked
    /\ before' = store
    /\ res' = NoRes
    /\ UNCHANGED <<inp, store, cwd, saved, hist>>

\* the results Repository::find_object allows for a reference given as text
Lookup(st, ref) ==
    IF ObjectRef_from_sha1(ref) THEN find_object(st, ref) ELSE {FindErr}

Lookups_TreeOnly(tree_sha, parents) == <<tree_sha>>

\* cmd_commit_tree: the references it looks up before it builds the commit
Lookups(tree_sha, parents) == <<tree_sha>> \o parents

IsCommitFile(st, p) == \E r \in from_path(st[p]) : r.ok /\ r.obj.type = "Commit"
CommitIds(st) == {p[1] \o p[2] : p \in {q \in DOMAIN st : IsCommitFile(st, q)}}

\* the ids a user hands to commit-tree: the tree just written (or the empty
\* blob, which find_object accepts as well), an id that is not stored, text
\* that is no id; as parents an id in upper case and one that is not stored
TreeIds == {IF hist.valid THEN hist.root ELSE EmptyBlobId, AbsentId, BadId}
ParentIds == {AbsentId, Upper(EmptyBlobId)}

\* cmd_commit_tree up to its save: every lookup, then the commit is built
CmdCommitTree ==
    /\ pc = "idle"
    /\ Cardinality(CommitIds(store)) < MaxCommits
    /\ \E tree_sha \in TreeIds, parents \in SeqsUpTo(ParentIds, MaxParents) :
          LET refs == Lookups(tree_sha, parents)
              object == CommitObj(CommitData_into(
                            NewCommitData(tree_sha, parents, S_msg, 1700000000)))
              c == [NoCmd EXCEPT !.name = "commit-tree", !.tree_sha = tree_sha,
                                 !.parents = parents, !.message = S_msg]
          IN  \/ /\ \A i \in 1..Len(refs) : \E r \in Lookup(store, refs[i]) : r.ok
                 /\ cmd' = [c EXCEPT !.objects = <<object>>]
                 /\ queue' = <<object>>
                 /\ pc' = "save"
                 /\ out' = NoOut
              \/ /\ \E i \in 1..Len(refs) : \E r \in Lookup(store, refs[i]) : ~r.ok
                 /\ cmd' = c
                 /\ queue' = <<>>
                 /\ pc' = "idle"
                 /\ out' = Failed
    /\ before' = store
    /\ res' = NoRes
    /\ UNCHANGED <<inp, store, cwd, saved, hist>>

\* save_object, first half: create_dir_all and File::create
SaveBegin ==
    /\ pc = "save"
    /\ store' = File_create(store, PathOf(Head(queue)))
    /\ pc' = "write"
    /\ UNCHANGED <<inp, res, cwd, cmd, queue, out, before, saved, hist>>

\* save_object, second half: the encoder's writes and the flush; then the
\* loop of cmd_write_tree moves on, or the command prints its id and ends
SaveFinish ==
    /\ pc = "write"
    /\ LET object == Head(queue)
           st == File_write(store, PathOf(object), write_to(object))
           last == Len(queue) = 1
       IN  /\ store' = st
           /\ saved' = saved \cup {hash_string(object)}
           /\ queue' = Tail(queue)
           /\ pc' = IF last THEN "idle" ELSE "save"
           /\ out' = IF ~last THEN out
                     ELSE IF cmd.name = "write-tree" THEN Ok(cmd.root)
                     ELSE Ok(hash_string(object))
           /\ hist' = IF ~last THEN hist
                      ELSE IF cmd.name # "write-tree" THEN NoHist
                      ELSE IF hist.valid THEN [hist EXCEPT !.runs = 2]
                      ELSE [valid |-> TRUE, root |-> cmd.root, store |-> st,
                            runs |-> 1]
    /\ UNCHANGED <<inp, res, cwd, cmd, before>>

NextStore ==
    \/ CmdHashObject \/ CmdWriteTree \/ CmdCommitTree
    \/ SaveBegin \/ SaveFinish

Spec == InitStore /\ [][NextStore]_vars

----------------------------------------------------------------------------
(* SpecCrash: the same commands, where the process may be killed while it
   saves *)

\* the process is killed in the save loop: between two saves, or after
\* File::create with none, half or all but the last of the bytes on disk
Interrupt ==
    /\ pc \in {"save", "write"}
    /\ IF pc = "write"
       THEN \E k \in {0, Len(write_to(Head(queue))) \div 2,
                      Len(write_to(Head(queue))) - 1} :
               store' = File_write(store, PathOf(Head(queue)),
                                   Take(write_to(Head(queue)), k))
       ELSE store' = store
    /\ pc' = "idle"
    /\ queue' = <<>>
    /\ out' = [status |-> "killed", text |-> <<>>]
    /\ UNCHANGED <<inp, res, cwd, cmd, before, saved, hist>>

\* the runs that may be killed: hash-object -w and write-tree over a flat
\* directory
InitCrash ==
    /\ InitStore
    /\ \A i \in 1..Len(cwd) : cwd[i].type = "file"

NextCrash ==
    \/ CmdHashObject \/ CmdWriteTree
    \/ SaveBegin \/ SaveFinish \/ Interrupt

SpecCrash == InitCrash /\ [][NextCrash]_vars

----------------------------------------------------------------------------
(* SpecFind: find_object on stores that hold whatever was put there *)

FindObjects == {Blob(<<>>), Blob(S_a), Tree(S_a)}
FindPaths ==
    {PathOf(Blob(<<>>)), PathOf(Blob(S_a)),
     <<Upper(PathOf(Blob(<<>>))[1]), Upper(PathOf(Blob(<<>>))[2])>>,
     <<PathOf(Blob(<<>>))[1], Upper(PathOf(Blob(<<>>))[2])>>}
FindFiles ==
    {write_to(o) : o \in FindObjects}
    \cup {<<>>, Take(write_to(Blob(S_a)), 6), <<1, 2, 3, 4>>,
          Deflate(S_blob \o <<SP, 50, NUL>> \o S_a),
          Deflate(S_commit \o <<SP, 49, NUL>> \o S_a),
          write_to(Blob(<<>>)) \o <<0>>}
OneFile(p, f) == [q \in {p} |-> f]
FindStores ==
    {<<>>} \cup {OneFile(p, f) : p \in FindPaths, f \in FindFiles}
    \cup {WithFile(OneFile(p, f), q, write_to(Blob(<<>>))) :
             p \in FindPaths, f \in FindFiles,
             q \in {PathOf(Blob(<<>>)), PathOf(Blob(S_a))}}
FindRefs ==
    {EmptyBlobId, Upper(EmptyBlobId), hash_string(Blob(S_a)), AbsentId}

InitFind ==
    /\ inp \in {Input("find", NoObject, ref, <<>>) : ref \in FindRefs}
    /\ res = NoRes
    /\ store \in FindStores
    /\ cwd = <<>>
    /\ pc = "idle" /\ cmd = NoCmd /\ queue = <<>> /\ out = NoOut
    /\ before = <<>> /\ saved = {} /\ hist = NoHist

\* cmd_cat_file, as far as the store goes: find_object and what it returns
CmdCatFile ==
    /\ pc = "idle" /\ res.op = "none"
    /\ LET ref == inp.bytes
       IN  /\ ObjectRef_from_sha1(ref)
           /\ cmd' = [NoCmd EXCEPT !.name = "cat-file", !.ref = ref]
           /\ \E r \in find_object(store, ref) :
                 /\ res' = [NoRes EXCEPT !.op = "find",
                                         !.status = IF r.ok THEN "ok" ELSE "err",
                                         !.results = {r}]
                 /\ out' = IF r.ok THEN Ok(contents_bytes(r.obj)) ELSE Failed
    /\ before' = store
    /\ UNCHANGED <<inp, store, cwd, pc, queue, saved, hist>>

NextFind == CmdCatFile

SpecFind == InitFind /\ [][NextFind]_vars

----------------------------------------------------------------------------
(* Claims about the store *)

\* every result find_object may give for id is an object that hashes to id
Findable(st, id) ==
    \A r \in find_object(st, id) : r.ok /\ hash_string(r.obj) = id

\* C2: every object whose save_object call has returned is found under its
\* id, and what is found hashes to that id; no later save changes this (a
\* file is out of reach only while save_object is writing that very file).
C2_SavedAreFound ==
    \A id \in saved :
        \/ pc = "write" /\ id = hash_string(Head(queue))
        \/ Findable(store, id)

\* blobs, trees and a commit have been saved, and a command has ended
C2_Witness ==
    /\ pc = "idle" /\ cmd.name = "commit-tree" /\ out.status = "ok"
    /\ Cardinality(saved) >= 4
    /\ out.text \in saved
    /\ \A id \in saved : Findable(store, id)

\* the files find_object can locate for ref
Located(st, ref) ==
    {p \in DOMAIN st : /\ EqIgnoreAsciiCase(p[1], Take(ref, PREFIX_LEN))
                       /\ EqIgnoreAsciiCase(p[2], Drop(ref, PREFIX_LEN))}
DecodesToOther(f, ref) ==
    \E r \in from_path(f) : r.ok /\ ~EqIgnoreAsciiCase(hash_string(r.obj), ref)
DecodesToRef(f, ref) ==
    \E r \in from_path(f) : r.ok /\ EqIgnoreAsciiCase(hash_string(r.obj), ref)

\* C3: find_object returns no object whose recomputed hash differs from the
\* id asked for (compared without regard to case); when the files located
\* for the id decode to objects of another hash, it fails.
C3_HashVerified ==
    res.op = "find" =>
        /\ \A r \in res.results :
              r.ok => EqIgnoreAsciiCase(hash_string(r.obj), cmd.ref)
        /\ (\A p \in Located(store, cmd.ref) : ~DecodesToRef(store[p], cmd.ref))
              => res.status = "err"

\* a well-formed object file lies under the path of another id, and the
\* lookup of that id has failed
C3_Witness ==
    /\ res.op = "find" /\ res.status = "err"
    /\ \E p \in Located(store, cmd.ref) : DecodesToOther(store[p], cmd.ref)

\* is there a file under the path of id
Stored(st, id) == \E p \in DOMAIN st : EqIgnoreAsciiCase(p[1] \o p[2], id)
BadRef(st, id) == ~IsHexId(id) \/ ~Stored(st, id)

\* C4: when the tree id or one of the parent ids of commit-tree is no id or
\* is not in the store, the command fails and the store is what it was when
\* the command started: no commit is written.
C4_NoCommitOnBadRef ==
    (/\ cmd.name = "commit-tree"
     /\ \E id \in {cmd.tree_sha} \cup Range(cmd.parents) : BadRef(before, id))
        => /\ pc = "idle" /\ queue = <<>> /\ out = Failed
           /\ store = before
           /\ CommitIds(store) = CommitIds(before)

\* the tree is stored, the parent is not: the command has failed
C4_Witness ==
    /\ cmd.name = "commit-tree"
    /\ Stored(before, cmd.tree_sha)
    /\ cmd.parents = <<AbsentId>>
    /\ out = Failed /\ store = before /\ DOMAIN store # {}

\* C8: a second complete write-tree over the unchanged directory prints the
\* root id of the first and leaves the store, paths and file bytes, as the
\* first left it; saving an object twice gives the store of saving it once.
C8_Idempotent ==
    /\ (/\ pc = "idle" /\ cmd.name = "write-tree" /\ out.status = "ok"
        /\ hist.valid /\ hist.runs = 2)
          => (out.text = hist.root /\ store = hist.store)
    /\ \A i \in 1..Len(cmd.objects) :
          LET once == save_object(before, cmd.objects[i])
          IN  save_object(once, cmd.objects[i]) = once

\* write-tree has completed twice in a row over a directory with a subtree
C8_Witness ==
    /\ pc = "idle" /\ cmd.name = "write-tree" /\ out.status = "ok"
    /\ hist.valid /\ hist.runs = 2
    /\ Len(cmd.objects) >= 6
    /\ store = hist.store

\* C9: after an interruption of the save loop, every object whose save had
\* completed is still found under its id.
C9_CompletedSavesSurvive ==
    (pc = "idle" /\ out.status = "killed")
        => \A id \in saved : Findable(store, id)

\* the entries of a tree object, as its payload lists them
EntriesOf(o) == Range(TreeData_iter(o.data).items)

\* C10: in the list write-tree saves, whatever a tree's entry refers to
\* stands before that tree, and the root tree is last; so each tree that has
\* been saved has everything it refers to saved; and the walk itself saves
\* nothing: the store is untouched until the loop starts, and stays so when
\* the walk fails.
C10_ChildrenFirst ==
    cmd.name = "write-tree" =>
        IF cmd.objects = <<>>
        THEN store = before /\ pc = "idle" /\ queue = <<>>
        ELSE LET objs == cmd.objects
                 n == Len(objs)
                 done == n - Len(queue)
             IN  /\ objs[n].type = "Tree" /\ hash_string(objs[n]) = cmd.root
                 /\ \A i \in 1..n :
                       objs[i].type = "Tree" =>
                          /\ objs[i].data = AddItems(<<>>, TreeData_iter(objs[i].data).items)
                          /\ \A e \in EntriesOf(objs[i]) :
                                \E j \in 1..(i - 1) : hash(objs[j]) = e.hash
                 /\ \A i \in 1..done :
                       objs[i].type = "Tree" =>
                          \A e \in EntriesOf(objs[i]) : HexOf(e.hash) \in saved
                 /\ (pc = "save" /\ done = 0) => store = before

\* the loop is under way: a subtree with entries has been saved, the root
\* has not
C10_Witness ==
    /\ cmd.name = "write-tree" /\ pc = "save"
    /\ \E i \in 1..(Len(cmd.objects) - Len(queue)) :
          cmd.objects[i].type = "Tree" /\ EntriesOf(cmd.objects[i]) # {}
    /\ queue # <<>>

----------------------------------------------------------------------------
(* Claims about the directory walk *)

\* a name that starts with the hidden-prefix marker '.'
IsHidden(n) == n # <<>> /\ n[1] = DOT

\* a listing without its hidden subdirectories, and with files = TRUE
\* without its hidden files too, at every depth
RECURSIVE Prune(_, _)
Prune(entries, files) ==
    IF entries = <<>> THEN <<>>
    ELSE LET f == Head(entries)
         IN  IF IsHidden(f.name) /\ (f.type = "dir" \/ (files /\ f.type = "file"))
             THEN Prune(Tail(entries), files)
             ELSE <<[f EXCEPT !.kids = Prune(f.kids, files)]>>
                  \o Prune(Tail(entries), files)

\* the flat lists a walk of the working directory pruned so can produce
PrunedLists(files) ==
    {FlatList(b.objects, Tree(b.tree)) :
        b \in {w \in {build_tree_for_directory(<<>>, Prune(l, files)) :
                        l \in Perms(cwd)} : w.status = "ok"}}

\* does the working directory hold a hidden entry of the given type
RECURSIVE HasHidden(_, _)
HasHidden(entries, type) ==
    \E i \in 1..Len(entries) :
        \/ (IsHidden(entries[i].name) /\ entries[i].type = type)
        \/ (entries[i].type = "dir" /\ ~IsHidden(entries[i].name)
             /\ HasHidden(entries[i].kids, type))

\* C11 as stated: every entry whose name starts with '.', a subdirectory or
\* a regular file, is skipped: the flat list of write-tree is the one of the
\* working directory without its hidden entries, and no tree in it lists a
\* name that starts with '.'.
C11_HiddenSkipped ==
    (cmd.name = "write-tree" /\ cmd.objects # <<>>) =>
        /\ cmd.objects \in PrunedLists(TRUE)
        /\ \A i \in 1..Len(cmd.objects) :
              cmd.objects[i].type = "Tree" =>
                 \A e \in EntriesOf(cmd.objects[i]) : ~IsHidden(e.name)

\* C11, amended: a subdirectory whose name starts with '.' is skipped
\* with everything below it, read or not: the flat list of write-tree is
\* the one of the working directory without its hidden subdirectories, and
\* no tree in it lists a hidden name with the mode of a directory.  A
\* regular file whose name starts with '.' is an entry like any other file.
C11_HiddenDirsSkipped ==
    (cmd.name = "write-tree" /\ cmd.objects # <<>>) =>
        /\ cmd.objects \in PrunedLists(FALSE)
        /\ \A i \in 1..Len(cmd.objects) :
              cmd.objects[i].type = "Tree" =>
                 \A e \in EntriesOf(cmd.objects[i]) :
                    IsHidden(e.name) => e.mode \in {MODE_FILE, MODE_EXEC}
        /\ HasHidden(cwd, "file") =>
              \E i \in 1..Len(cmd.objects) :
                 /\ cmd.objects[i].type = "Tree"
                 /\ \E e \in EntriesOf(cmd.objects[i]) : IsHidden(e.name)

\* write-tree has run to its end over a directory with a hidden
\* subdirectory at the top, one further down, and a hidden file
C11_Witness ==
    /\ cmd.name = "write-tree" /\ pc = "idle" /\ out.status = "ok"
    /\ \E i \in 1..Len(cwd) : IsHidden(cwd[i].name) /\ cwd[i].type = "dir"
    /\ \E i \in 1..Len(cwd) :
          /\ ~IsHidden(cwd[i].name)
          /\ HasHidden(cwd[i].kids, "dir")
    /\ HasHidden(cwd, "file")

----------------------------------------------------------------------------
(* Claims about the listing of a tree *)

\* (mode & 0o170000) == 0o100000: the file-type field, bits 12 to 15 of
\* the mode, is the one of a regular file
IsRegularMode(mode) == (mode \div 4096) % 16 = 8

\* C12: whatever the mode of a tree entry, ls-tree (and cat-file -p) labels
\* it "blob" exactly when (mode & 0o170000) = 0o100000, and "tree"
\* otherwise: is_file is the test of the file-type field.
C12_IsFileMask ==
    res.op = "ls-tree" =>
        /\ res.status = "ok"
        /\ Len(res.items) = Len(TreeData_iter(inp.bytes).items)
        /\ \A i \in 1..Len(res.items) :
              /\ ParseOct(res.items[i].mode).ok
              /\ res.items[i].kind \in {"blob", "tree"}
              /\ res.items[i].kind = "blob"
                    <=> IsRegularMode(ParseOct(res.items[i].mode).val)

----------------------------------------------------------------------------
(* Claims about the commit text *)

Abs(n) == IF n < 0 THEN 0 - n ELSE n

\* the header line of a commit text that starts with the tag and a space;
\* <<>> if the header has none
RECURSIVE HeaderLine(_, _)
HeaderLine(text, tag) ==
    LET ln == SplitOnce(text, LF)
    IN  IF ~ln.ok \/ ln.l = <<>> THEN <<>>
        ELSE IF Take(ln.l, Len(tag) + 1) = tag \o <<SP>> THEN ln.l
        ELSE HeaderLine(ln.r, tag)

\* <+-HHMM>: a sign, then exactly four decimal digits, of value |tz|
SignedHHMM(tz) ==
    LET d == Dec(Abs(tz))
    IN  <<IF tz < 0 THEN MINUS ELSE PLUS>>
        \o [i \in 1..(4 - Len(d)) |-> 48] \o d

\* the line of a person in the PersonStamp grammar
StampLine(tag, p) ==
    tag \o <<SP>> \o p.name \o <<SP, LT>> \o p.email \o <<GT, SP>>
        \o Dec(p.timestamp) \o <<SP>> \o SignedHHMM(p.timezone)

\* the person a line parsed to is the person p
SamePerson(q, p) ==
    /\ q.ok /\ q.name = p.name /\ q.email = p.email
    /\ q.timestamp = Dec(p.timestamp)
    /\ q.tzneg = (p.timezone < 0) /\ q.tz = Dec(Abs(p.timezone))

\* the serialized commit parses back to the CommitData it was made from
ParsesBack ==
    \A r \in res.results :
        /\ r.ok
        /\ r.tree_hash = inp.obj.tree_hash
        /\ r.parent_hashes = inp.obj.parent_hashes
        /\ SamePerson(r.author, inp.obj.author)
        /\ SamePerson(r.committer, inp.obj.committer)
        /\ r.message = inp.obj.message

\* the timezone of a stamp line: what follows its last space
TimezoneOf(line) ==
    Drop(line, CHOOSE i \in 0..Len(line) :
                  /\ (i = 0 \/ line[i] = SP)
                  /\ \A j \in (i + 1)..Len(line) : line[j] # SP)
IsSignAndFourDigits(t) ==
    /\ Len(t) = 5 /\ t[1] \in {PLUS, MINUS}
    /\ \A i \in 2..5 : IsDigit(t[i])

\* C13: in the text of a serialized CommitData whose timezones are HHMM
\* offsets (below 10000 in size) the author and committer lines are
\* "<name> <<email>> <epoch-seconds> <+-HHMM>", the timezone a sign and
\* exactly four digits (+0000 for 0), and the text parses back to the same
\* tree id, parents, author, committer and message.
C13_StampFourDigits ==
    (res.op = "commit" /\ Abs(inp.obj.author.timezone) < 10000
                       /\ Abs(inp.obj.committer.timezone) < 10000) =>
        /\ res.status = "ok"
        /\ IsSignAndFourDigits(TimezoneOf(HeaderLine(res.data, S_author)))
        /\ IsSignAndFourDigits(TimezoneOf(HeaderLine(res.data, S_committer)))
        /\ HeaderLine(res.data, S_author) = StampLine(S_author, inp.obj.author)
        /\ HeaderLine(res.data, S_committer)
              = StampLine(S_committer, inp.obj.committer)
        /\ ParsesBack

====
